---------------------------- MODULE Spec2Model ----------------------------
(***************************************************************************)
(* Project/task manager: the App state container (src/src/App.jsx), the    *)
(* creation form with its validation modal (NewProject.jsx / Modal.jsx as  *)
(* listed in src/docs/13_styling_modal.md), the task input (NewTask.jsx)   *)
(* and the content selection of App's render.                              *)
(*                                                                         *)
(* JavaScript values: text is a sequence of one-character strings; an id   *)
(* is a positive integer (a value of Math.random()); the two non-id values *)
(* of selectedProjectId, undefined and null, are the integers Undefined    *)
(* and Null, which no id equals (=== on number/null/undefined).            *)
(***************************************************************************)
EXTENDS Integers, Sequences, FiniteSets, TLC

\* ------------------------------------------------------------------ bounds
MaxId == 2
MaxProjects == 2
MaxTasks == 2
MaxBatch == 2

\* ------------------------------------------------------------ JS constants
Undefined == -1
Null == 0

\* Values Math.random() may return (it never returns null or undefined).
Ids == 1..MaxId

\* Texts the user can have in the inputs.
Titles == {<<>>, <<" ">>, <<" ", "a">>}
Descriptions == {<<>>, <<"d">>}
\* <input type="date">: the value is "" or a well-formed date string.
DueDates == {<<>>, <<"2", "5">>}
TaskTexts == {<<>>, <<" ">>, <<"x", " ">>}

VARIABLES
  projectState,   \* App: useState({selectedProjectId, projects, tasks})
  modalOpen,      \* Modal: the <dialog> is shown (showModal() was called)
  title,          \* NewProject: title.current.value
  description,    \* NewProject: description.current.value
  dueDate,        \* NewProject: dueDate.current.value
  enteredTask,    \* NewTask: useState("")
  pending         \* App: the updaters queued by setProjectState, not yet applied

vars == <<projectState, modalOpen, title, description, dueDate, enteredTask,
          pending>>

\* ------------------------------------------------------- String.prototype
IsWhiteSpace(c) == c \in {" ", "\t", "\n"}

RECURSIVE trimStart(_)
trimStart(s) ==
  IF s = <<>> THEN <<>>
  ELSE IF IsWhiteSpace(Head(s)) THEN trimStart(Tail(s))
  ELSE s

RECURSIVE trimEnd(_)
trimEnd(s) ==
  IF s = <<>> THEN <<>>
  ELSE IF IsWhiteSpace(s[Len(s)]) THEN trimEnd(SubSeq(s, 1, Len(s) - 1))
  ELSE s

trim(s) == trimEnd(trimStart(s))

\* -------------------------------------------------------- Array.prototype
\* variant: find((project) => { project.id === id }), a callback that
\* returns nothing, so that nothing is ever found
find_noReturn(arr, id) == <<>>

\* find: the first element whose id is strictly equal to id, as a sequence
\* of length one; <<>> stands for undefined (nothing found).
find(arr, id) ==
  LET hits == {i \in 1..Len(arr) : arr[i].id = id}
  IN IF hits = {} THEN <<>>
     ELSE <<arr[CHOOSE i \in hits : \A j \in hits : i <= j]>>

\* filter((x) => x.id !== id)
filterNotId(arr, id) == SelectSeq(arr, LAMBDA x : x.id # id)

\* ------------------------------------------------------------- App state
\* variant: tasks: [...prevState.tasks, newTask]
handleAddTask_append(prevState, text, taskId) ==
  LET newTask == [text |-> text,
                  projectId |-> prevState.selectedProjectId,
                  id |-> taskId]
  IN [prevState EXCEPT !.tasks = Append(prevState.tasks, newTask)]

\* variant: projectId: taskId, the task refers to itself
handleAddTask_wrongProject(prevState, text, taskId) ==
  LET newTask == [text |-> text,
                  projectId |-> taskId,
                  id |-> taskId]
  IN [prevState EXCEPT !.tasks = <<newTask>> \o prevState.tasks]

\* variant: the selection is reset as handleAddProject resets it
handleAddTask_deselects(prevState, text, taskId) ==
  LET newTask == [text |-> text,
                  projectId |-> prevState.selectedProjectId,
                  id |-> taskId]
  IN [prevState EXCEPT !.selectedProjectId = Undefined,
                       !.tasks = <<newTask>> \o prevState.tasks]

handleAddTask(prevState, text, taskId) ==
  LET newTask == [text |-> text,
                  projectId |-> prevState.selectedProjectId,
                  id |-> taskId]
  IN [prevState EXCEPT !.tasks = <<newTask>> \o prevState.tasks]

\* variant: tasks.splice(tasks.findIndex((task) => task.id === id), 1);
\* findIndex gives -1 when no task has the id, and splice(-1, 1) drops the
\* last task.
handleDeleteTask_splice(prevState, id) ==
  LET old == prevState.tasks
      hits == {i \in 1..Len(old) : old[i].id = id}
      k == IF hits = {} THEN Len(old)
           ELSE CHOOSE i \in hits : \A j \in hits : i <= j
  IN [prevState EXCEPT !.tasks = SubSeq(old, 1, k - 1) \o SubSeq(old, k + 1, Len(old))]

handleDeleteTask(prevState, id) ==
  [prevState EXCEPT !.tasks = filterNotId(prevState.tasks, id)]

handleSelectProject(prevState, id) ==
  [prevState EXCEPT !.selectedProjectId = id]

\* variant: return { selectedProjectId: null } without ...prevState
handleStartAddProject_noSpread(prevState) ==
  [selectedProjectId |-> Null, projects |-> <<>>, tasks |-> <<>>]

handleStartAddProject(prevState) ==
  [prevState EXCEPT !.selectedProjectId = Null]

\* variant: the handler toggles between the form and no selection
handleCancelProjectAddProject_toggle(prevState) ==
  [prevState EXCEPT !.selectedProjectId =
     IF prevState.selectedProjectId = Undefined THEN Null ELSE Undefined]

handleCancelProjectAddProject(prevState) ==
  [prevState EXCEPT !.selectedProjectId = Undefined]

\* variant: projects: [newProject, ...prevState.projects]
handleAddProject_prepend(prevState, projectData, projectId) ==
  LET newProject == [title |-> projectData.title,
                     description |-> projectData.description,
                     dueDate |-> projectData.dueDate,
                     id |-> projectId]
  IN [prevState EXCEPT !.selectedProjectId = Undefined,
                       !.projects = <<newProject>> \o prevState.projects]

\* variant: selectedProjectId is left as it is (the form stays open)
handleAddProject_keepSelection(prevState, projectData, projectId) ==
  LET newProject == [title |-> projectData.title,
                     description |-> projectData.description,
                     dueDate |-> projectData.dueDate,
                     id |-> projectId]
  IN [prevState EXCEPT !.projects = Append(prevState.projects, newProject)]

handleAddProject(prevState, projectData, projectId) ==
  LET newProject == [title |-> projectData.title,
                     description |-> projectData.description,
                     dueDate |-> projectData.dueDate,
                     id |-> projectId]
  IN [prevState EXCEPT !.selectedProjectId = Undefined,
                       !.projects = Append(prevState.projects, newProject)]

\* variant: projects.splice(findIndex(...), 1); findIndex gives -1 when
\* nothing is selected, and splice(-1, 1) drops the last project.
handleDeleteProject_splice(prevState) ==
  LET old == prevState.projects
      hits == {i \in 1..Len(old) : old[i].id = prevState.selectedProjectId}
  IN [prevState EXCEPT
        !.selectedProjectId = Undefined,
        !.projects = IF hits = {} THEN SubSeq(old, 1, Len(old) - 1)
                     ELSE filterNotId(old, prevState.selectedProjectId)]

\* variant: the tasks of the deleted project are removed with it
handleDeleteProject_cascade(prevState) ==
  [prevState EXCEPT !.selectedProjectId = Undefined,
                    !.projects = filterNotId(prevState.projects,
                                             prevState.selectedProjectId),
                    !.tasks = SelectSeq(prevState.tasks,
                        LAMBDA x : x.projectId # prevState.selectedProjectId)]

\* variant: filter((project) => project.id === prevState.selectedProjectId)
handleDeleteProject_inverted(prevState) ==
  [prevState EXCEPT !.selectedProjectId = Undefined,
                    !.projects = SelectSeq(prevState.projects,
                        LAMBDA x : x.id = prevState.selectedProjectId)]

\* variant: selectedProjectId is not reset
handleDeleteProject_staysSelected(prevState) ==
  [prevState EXCEPT !.projects = filterNotId(prevState.projects,
                                             prevState.selectedProjectId)]

handleDeleteProject(prevState) ==
  [prevState EXCEPT !.selectedProjectId = Undefined,
                    !.projects = filterNotId(prevState.projects,
                                             prevState.selectedProjectId)]

\* ------------------------------------------------------------ App render
selectedProject(state) == find(state.projects, state.selectedProjectId)

\* variant: selectedProjectId == null (loose equality, true of undefined too)
content_looseEquality(state) ==
  IF state.selectedProjectId \in {Null, Undefined}
    THEN [kind |-> "NewProject", project |-> <<>>]
  ELSE [kind |-> "SelectedProject", project |-> selectedProject(state)]

\* content: which component App renders and with which project prop
\* (project = <<>> is the prop value undefined).
content(state) ==
  IF state.selectedProjectId = Null
    THEN [kind |-> "NewProject", project |-> <<>>]
  ELSE IF state.selectedProjectId = Undefined
    THEN [kind |-> "NoProjectSelected", project |-> <<>>]
  ELSE [kind |-> "SelectedProject", project |-> selectedProject(state)]

\* tasks prop handed to SelectedProject and rendered by Tasks (tasks.map).
shownTasks(state) == state.tasks

\* SelectedProject reads project.dueDate: rendering it with project
\* undefined throws, and React unmounts the application.
renderThrows(state) ==
  /\ content(state).kind = "SelectedProject"
  /\ content(state).project = <<>>

Mounted == ~renderThrows(projectState)

\* ----------------------------------------------------- NewProject / Modal
\* variant: enteredTask === "" without trim()
isBlank_noTrim(s) == s = <<>>

isBlank(s) == trim(s) = <<>>

\* variant: the values are compared with "" without trim()
invalidInput_noTrim(enteredTitle, enteredDescription, enteredDueDate) ==
  \/ enteredTitle = <<>>
  \/ enteredDescription = <<>>
  \/ enteredDueDate = <<>>

\* variant: only the title is checked
invalidInput_titleOnly(enteredTitle, enteredDescription, enteredDueDate) ==
  isBlank(enteredTitle)

invalidInput(enteredTitle, enteredDescription, enteredDueDate) ==
  \/ isBlank(enteredTitle)
  \/ isBlank(enteredDescription)
  \/ isBlank(enteredDueDate)

\* --------------------------------------------------- component life cycle
\* NewProject (its inputs and its Modal) lives while App renders it; a fresh
\* mount has empty inputs and a closed dialog.  NewTask lives inside
\* SelectedProject, which keeps its place in the tree while one project or
\* another is selected.
FormMounted(state) == state.selectedProjectId = Null
DetailMounted(state) == state.selectedProjectId \notin {Null, Undefined}

FormAfter(new, t, d, dd, m) ==
  IF FormMounted(projectState) /\ FormMounted(new)
    THEN /\ title' = t /\ description' = d /\ dueDate' = dd /\ modalOpen' = m
    ELSE /\ title' = <<>> /\ description' = <<>> /\ dueDate' = <<>>
         /\ modalOpen' = FALSE

TaskInputAfter(new, e) ==
  IF DetailMounted(projectState) /\ DetailMounted(new)
    THEN enteredTask' = e
    ELSE enteredTask' = <<>>

\* setProjectState(updater) followed by the re-render, the updater being the
\* only one queued.
Commit(new) ==
  /\ projectState' = new
  /\ FormAfter(new, title, description, dueDate, modalOpen)
  /\ TaskInputAfter(new, enteredTask)
  /\ pending' = pending

\* variant: useState({ selectedProjectId: null, ... })
Init_formOpen ==
  /\ projectState = [selectedProjectId |-> Null,
                     projects |-> <<>>,
                     tasks |-> <<>>]
  /\ modalOpen = FALSE
  /\ title = <<>>
  /\ description = <<>>
  /\ dueDate = <<>>
  /\ enteredTask = <<>>
  /\ pending = <<>>

Init ==
  /\ projectState = [selectedProjectId |-> Undefined,
                     projects |-> <<>>,
                     tasks |-> <<>>]
  /\ modalOpen = FALSE
  /\ title = <<>>
  /\ description = <<>>
  /\ dueDate = <<>>
  /\ enteredTask = <<>>
  /\ pending = <<>>

\* variant: dialog.current.show(), a dialog that is not modal
Interactive_show == Mounted

\* An open modal dialog makes the rest of the page inert.
Interactive == Mounted /\ ~modalOpen

\* ------------------------------------------------------------ user events
\* "+ Add Project" (sidebar) / "Create new project" (NoProjectSelected)
ClickStartAddProject ==
  /\ Interactive
  /\ Commit(handleStartAddProject(projectState))

\* Cancel button of NewProject
ClickCancel ==
  /\ Interactive
  /\ content(projectState).kind = "NewProject"
  /\ Commit(handleCancelProjectAddProject(projectState))

\* typing into the inputs of NewProject
EditTitle ==
  /\ Interactive
  /\ content(projectState).kind = "NewProject"
  /\ \E s \in Titles : s # title /\ title' = s
  /\ UNCHANGED <<projectState, modalOpen, description, dueDate, enteredTask, pending>>

EditDescription ==
  /\ Interactive
  /\ content(projectState).kind = "NewProject"
  /\ \E s \in Descriptions : s # description /\ description' = s
  /\ UNCHANGED <<projectState, modalOpen, title, dueDate, enteredTask, pending>>

EditDueDate ==
  /\ Interactive
  /\ content(projectState).kind = "NewProject"
  /\ \E s \in DueDates : s # dueDate /\ dueDate' = s
  /\ UNCHANGED <<projectState, modalOpen, title, description, enteredTask, pending>>

\* variant: the inputs are cleared when the modal is opened
handleSave_clearsInputs ==
  /\ Interactive
  /\ content(projectState).kind = "NewProject"
  /\ IF invalidInput(title, description, dueDate)
       THEN /\ modalOpen' = TRUE
            /\ title' = <<>> /\ description' = <<>> /\ dueDate' = <<>>
            /\ UNCHANGED <<projectState, enteredTask, pending>>
       ELSE /\ Len(projectState.projects) < MaxProjects
            /\ \E projectId \in Ids :
                 Commit(handleAddProject(projectState,
                                         [title |-> title,
                                          description |-> description,
                                          dueDate |-> dueDate],
                                         projectId))

\* variant: no return after modal.current.open(), onAdd is called as well
handleSave_noReturn ==
  /\ Interactive
  /\ content(projectState).kind = "NewProject"
  /\ Len(projectState.projects) < MaxProjects
  /\ \E projectId \in Ids :
       LET new == handleAddProject(projectState,
                                   [title |-> title,
                                    description |-> description,
                                    dueDate |-> dueDate],
                                   projectId)
       IN /\ projectState' = new
          /\ FormAfter(new, title, description, dueDate,
                       invalidInput(title, description, dueDate))
          /\ TaskInputAfter(new, enteredTask)
          /\ pending' = pending

\* Save button of NewProject: handleSave, then onAdd = handleAddProject
handleSave ==
  /\ Interactive
  /\ content(projectState).kind = "NewProject"
  /\ IF invalidInput(title, description, dueDate)
       THEN /\ modalOpen' = TRUE
            /\ UNCHANGED <<projectState, title, description, dueDate, enteredTask, pending>>
       ELSE /\ Len(projectState.projects) < MaxProjects
            /\ \E projectId \in Ids :
                 Commit(handleAddProject(projectState,
                                         [title |-> title,
                                          description |-> description,
                                          dueDate |-> dueDate],
                                         projectId))

\* variant: the button of the dialog is wired to onCancel as well
DismissModal_cancels ==
  /\ Mounted
  /\ modalOpen
  /\ Commit(handleCancelProjectAddProject(projectState))

\* the "Okay" button of the dialog (<form method="dialog">) or Escape
DismissModal ==
  /\ Mounted
  /\ modalOpen
  /\ modalOpen' = FALSE
  /\ UNCHANGED <<projectState, title, description, dueDate, enteredTask, pending>>

\* a project button of the sidebar: onSelectProject(project.id)
ClickProject ==
  /\ Interactive
  /\ \E i \in 1..Len(projectState.projects) :
       Commit(handleSelectProject(projectState, projectState.projects[i].id))

\* Delete button of SelectedProject
ClickDelete ==
  /\ Interactive
  /\ content(projectState).kind = "SelectedProject"
  /\ Commit(handleDeleteProject(projectState))

\* NewTask: handleChange
ChangeTask ==
  /\ Interactive
  /\ content(projectState).kind = "SelectedProject"
  /\ \E s \in TaskTexts : s # enteredTask /\ enteredTask' = s
  /\ UNCHANGED <<projectState, modalOpen, title, description, dueDate, pending>>

\* variant: no setEnteredTask("") after onAdd
handleClick_noReset ==
  /\ Interactive
  /\ content(projectState).kind = "SelectedProject"
  /\ IF isBlank(enteredTask)
       THEN UNCHANGED vars
       ELSE /\ Len(projectState.tasks) < MaxTasks
            /\ \E taskId \in Ids :
                 Commit(handleAddTask(projectState, enteredTask, taskId))

\* NewTask: handleClick, then onAdd = handleAddTask
handleClick ==
  /\ Interactive
  /\ content(projectState).kind = "SelectedProject"
  /\ IF isBlank(enteredTask)
       THEN UNCHANGED vars
       ELSE /\ Len(projectState.tasks) < MaxTasks
            /\ \E taskId \in Ids :
                 LET new == handleAddTask(projectState, enteredTask, taskId)
                 IN /\ projectState' = new
                    /\ FormAfter(new, title, description, dueDate, modalOpen)
                    /\ TaskInputAfter(new, <<>>)
                    /\ pending' = pending

\* Clear button of a rendered task: onDelete(task.id)
ClickClear ==
  /\ Interactive
  /\ content(projectState).kind = "SelectedProject"
  /\ \E i \in 1..Len(shownTasks(projectState)) :
       Commit(handleDeleteTask(projectState, shownTasks(projectState)[i].id))

Next ==
  \/ ClickStartAddProject
  \/ ClickCancel
  \/ EditTitle
  \/ EditDescription
  \/ EditDueDate
  \/ handleSave
  \/ DismissModal
  \/ ClickProject
  \/ ClickDelete
  \/ ChangeTask
  \/ handleClick
  \/ ClickClear

Spec == Init /\ [][Next]_vars

\* ------------------------------------------- the handlers called directly
\* The operations of the state container invoked with any argument in any
\* state, not only through what the current view renders.
CallStartAddProject ==
  /\ Mounted
  /\ Commit(handleStartAddProject(projectState))

CallCancelAddProject ==
  /\ Mounted
  /\ Commit(handleCancelProjectAddProject(projectState))

\* onAdd(projectData): projectData is what NewProject.handleSave hands over,
\* three texts that passed its check.
CallAddProject ==
  /\ Mounted
  /\ Len(projectState.projects) < MaxProjects
  /\ \E t \in Titles, d \in Descriptions, dd \in DueDates, projectId \in Ids :
       /\ ~invalidInput(t, d, dd)
       /\ Commit(handleAddProject(projectState,
                                  [title |-> t, description |-> d, dueDate |-> dd],
                                  projectId))

CallSelectProject ==
  /\ Mounted
  /\ \E id \in Ids : Commit(handleSelectProject(projectState, id))

CallDeleteProject ==
  /\ Mounted
  /\ Commit(handleDeleteProject(projectState))

CallAddTask ==
  /\ Mounted
  /\ Len(projectState.tasks) < MaxTasks
  /\ \E text \in TaskTexts, taskId \in Ids :
       /\ ~isBlank(text)
       /\ Commit(handleAddTask(projectState, text, taskId))

CallDeleteTask ==
  /\ Mounted
  /\ \E id \in Ids : Commit(handleDeleteTask(projectState, id))

NextAPI ==
  \/ CallStartAddProject
  \/ CallCancelAddProject
  \/ CallAddProject
  \/ CallSelectProject
  \/ CallDeleteProject
  \/ CallAddTask
  \/ CallDeleteTask

SpecAPI == Init /\ [][NextAPI]_vars

\* ------------------------------------- updaters queued before a render
\* setProjectState(updater) does not change projectState: it queues the
\* updater, and the next render applies the queued updaters in the order
\* they were queued, each to the value the one before returned.  A queued
\* updater is written as the handler that queued it and the argument of
\* the handler (an argument the handler does not take is left empty).
NoData == [title |-> <<>>, description |-> <<>>, dueDate |-> <<>>]

Updater(op, id, projectData) ==
  [op |-> op, id |-> id, projectData |-> projectData]

\* prevState => next state of one queued updater; projectId is the value
\* Math.random() returns when the updater of handleAddProject runs.
Apply(prevState, u, projectId) ==
  CASE u.op = "handleStartAddProject" -> handleStartAddProject(prevState)
    [] u.op = "handleCancelProjectAddProject" ->
         handleCancelProjectAddProject(prevState)
    [] u.op = "handleAddProject" ->
         handleAddProject(prevState, u.projectData, projectId)
    [] u.op = "handleSelectProject" -> handleSelectProject(prevState, u.id)
    [] u.op = "handleDeleteProject" -> handleDeleteProject(prevState)

\* variant: setProjectState({ ...projectState, ... }) with the value of the
\* last render instead of an updater: each queued value is computed from
\* the rendered state, and the last one queued is the one that stays.
processQueue_stale(queue, rnd, state) ==
  IF queue = <<>> THEN state
  ELSE Apply(state, queue[Len(queue)], rnd[Len(queue)])

\* The queue is worked off from its head; rnd[i] is the value of
\* Math.random() in the i-th updater.
RECURSIVE processQueue(_, _, _)
processQueue(queue, rnd, state) ==
  IF queue = <<>> THEN state
  ELSE processQueue(Tail(queue), Tail(rnd), Apply(state, Head(queue), Head(rnd)))

\* setProjectState(updater) inside a handler
Enqueue(u) ==
  /\ pending' = Append(pending, u)
  /\ UNCHANGED <<projectState, modalOpen, title, description, dueDate,
                 enteredTask>>

QueueStartAddProject ==
  /\ Mounted
  /\ Len(pending) < MaxBatch
  /\ Enqueue(Updater("handleStartAddProject", Undefined, NoData))

QueueCancelAddProject ==
  /\ Mounted
  /\ Len(pending) < MaxBatch
  /\ Enqueue(Updater("handleCancelProjectAddProject", Undefined, NoData))

QueueAddProject ==
  /\ Mounted
  /\ Len(pending) < MaxBatch
  /\ Len(projectState.projects)
       + Len(SelectSeq(pending, LAMBDA u : u.op = "handleAddProject"))
       < MaxProjects
  /\ \E t \in Titles, d \in Descriptions, dd \in DueDates :
       /\ ~invalidInput(t, d, dd)
       /\ Enqueue(Updater("handleAddProject", Undefined,
                          [title |-> t, description |-> d, dueDate |-> dd]))

QueueSelectProject ==
  /\ Mounted
  /\ Len(pending) < MaxBatch
  /\ \E id \in Ids : Enqueue(Updater("handleSelectProject", id, NoData))

QueueDeleteProject ==
  /\ Mounted
  /\ Len(pending) < MaxBatch
  /\ Enqueue(Updater("handleDeleteProject", Undefined, NoData))

\* the render after the event: the queued updaters are applied and App
\* renders the result.
Render ==
  /\ Mounted
  /\ pending # <<>>
  /\ \E rnd \in [1..Len(pending) -> Ids] :
       LET new == processQueue(pending, rnd, projectState)
       IN /\ projectState' = new
          /\ FormAfter(new, title, description, dueDate, modalOpen)
          /\ TaskInputAfter(new, enteredTask)
  /\ pending' = <<>>

NextBatch ==
  \/ QueueStartAddProject
  \/ QueueCancelAddProject
  \/ QueueAddProject
  \/ QueueSelectProject
  \/ QueueDeleteProject
  \/ Render

SpecBatch == Init /\ [][NextBatch]_vars

\* ========================================================== properties
\* Abbreviations used by the properties below.
sel == projectState.selectedProjectId
projects == projectState.projects
tasks == projectState.tasks
projectIds == {projects[i].id : i \in 1..Len(projects)}

\* A text is blank after trimming when it holds white space only.
Blank(s) == \A i \in 1..Len(s) : s[i] = " "
ValidForm == ~Blank(title) /\ ~Blank(description) /\ ~Blank(dueDate)

\* C1: a submission with three non-blank fields appends exactly one project,
\* carrying the submitted title, description and dueDate, after the existing
\* projects, which stay unchanged and in order.
C1_AddProjectAppends ==
  [][(handleSave /\ ValidForm) =>
       /\ Len(projects') = Len(projects) + 1
       /\ SubSeq(projects', 1, Len(projects)) = projects
       /\ projects'[Len(projects')].title = title
       /\ projects'[Len(projects')].description = description
       /\ projects'[Len(projects')].dueDate = dueDate]_vars

C1_Witness ==
  /\ Len(projects) = 2
  /\ sel = Undefined
  /\ projects[2].title = <<" ", "a">>
  /\ projects[2].description = <<"d">>
  /\ projects[1].id # projects[2].id

\* C2: the ids of the projects are pairwise distinct and the ids of the tasks
\* are pairwise distinct.
C2_IdsDistinct ==
  /\ \A i, j \in 1..Len(projects) : i # j => projects[i].id # projects[j].id
  /\ \A i, j \in 1..Len(tasks) : i # j => tasks[i].id # tasks[j].id

\* C3: a submission with a blank field creates no project and takes the
\* modal from closed to open; with three non-blank fields the modal stays
\* closed.
C3_BlankOpensModal ==
  [][handleSave =>
       IF ValidForm
         THEN ~modalOpen /\ ~modalOpen'
         ELSE projects' = projects /\ ~modalOpen /\ modalOpen']_vars

C3_Witness ==
  /\ modalOpen
  /\ title = <<" ">>
  /\ description = <<"d">>
  /\ dueDate = <<"2", "5">>

\* C4: a rejected submission leaves the snapshot as it was: selection still
\* add-mode, projects and tasks unchanged.
C4_RejectedKeepsSnapshot ==
  [][(handleSave /\ ~ValidForm) =>
       /\ sel = Null
       /\ projectState' = projectState]_vars

C4_Witness ==
  /\ modalOpen
  /\ sel = Null
  /\ Len(projects) >= 1
  /\ Len(tasks) >= 1

\* C5: right after a successful addProject the selection is no-selection
\* (neither add-mode nor the new id) and the view is NoProjectSelected.
C5_AddProjectDeselects ==
  [][(handleSave /\ projects' # projects) =>
       /\ sel' = Undefined
       /\ sel' # projects'[Len(projects')].id
       /\ content(projectState').kind = "NoProjectSelected"]_vars

C5_Witness ==
  /\ Len(projects) = 1
  /\ tasks = <<>>
  /\ sel = Undefined
  /\ content(projectState).kind = "NoProjectSelected"

C7_AddTaskPrepends ==
  [][(handleClick /\ ~Blank(enteredTask)) =>
       /\ selectedProject(projectState) # <<>>
       /\ Len(tasks') = Len(tasks) + 1
       /\ Tail(tasks') = tasks
       /\ tasks'[1].text = enteredTask
       /\ tasks'[1].projectId = selectedProject(projectState)[1].id]_vars

C7_Witness ==
  /\ Len(tasks) = 2
  /\ tasks[1].projectId = sel
  /\ tasks[2].projectId # sel
  /\ tasks[1].text = <<"x", " ">>

\* C8: when the view is the detail of P, the tasks shown are exactly the
\* tasks whose projectId is P.id, in collection order.
C8_DetailShowsOwnTasks ==
  (content(projectState).kind = "SelectedProject"
     /\ content(projectState).project # <<>>) =>
    shownTasks(projectState) =
      SelectSeq(tasks, LAMBDA t : t.projectId = content(projectState).project[1].id)

\* C9: a selection selected(id) whose id no project carries yields the view
\* NoProjectSelected, never a detail view without a project.
C9_AbsentYieldsNoProjectSelected ==
  (sel \notin {Null, Undefined} /\ sel \notin projectIds) =>
    /\ content(projectState).kind = "NoProjectSelected"
    /\ ~renderThrows(projectState)

\* C10: add-mode yields the creation form whatever the collections hold;
\* selected(id) with a matching project yields the detail of a project whose
\* id is the selected id; no-selection yields NoProjectSelected.
C10_ViewSelector ==
  /\ sel = Null => content(projectState).kind = "NewProject"
  /\ sel = Undefined => content(projectState).kind = "NoProjectSelected"
  /\ sel \in projectIds =>
       /\ content(projectState).kind = "SelectedProject"
       /\ Len(content(projectState).project) = 1
       /\ content(projectState).project[1].id = sel
       /\ \E i \in 1..Len(projects) : projects[i] = content(projectState).project[1]

C10_Witness ==
  /\ Len(projects) = 2
  /\ projects[1].id # projects[2].id
  /\ sel = projects[2].id
  /\ content(projectState).kind = "SelectedProject"
  /\ content(projectState).project = <<projects[2]>>

taskIds == {tasks[i].id : i \in 1..Len(tasks)}

\* C11: deleteTask(id) with an id no task carries leaves the tasks (same
\* tasks, order and length), the projects and the selection unchanged.
C11_DeleteAbsentTaskNoOp ==
  [][\A id \in Ids :
       (/\ id \notin taskIds
        /\ CallDeleteTask
        /\ projectState' = handleDeleteTask(projectState, id)) =>
         /\ tasks' = tasks
         /\ projects' = projects
         /\ sel' = sel]_vars

C11_Witness ==
  /\ Len(tasks) = 2
  /\ \E id \in Ids : id \notin taskIds
  /\ Len(projects) >= 1

\* C12: deleteTask(id) for an id in the collection removes that task and
\* nothing else: the collection shrinks by exactly one, the tasks with another
\* id keep their order, projects and selection are unchanged.
C12_DeleteTaskRemovesOne ==
  [][ClickClear =>
       /\ Len(tasks') = Len(tasks) - 1
       /\ \E i \in 1..Len(tasks) :
            tasks' = SelectSeq(tasks, LAMBDA t : t.id # tasks[i].id)
       /\ projects' = projects
       /\ sel' = sel]_vars

\* C13: cancelAddProject sets the selection to no-selection from any state
\* and is idempotent: a second call changes nothing.
C13_CancelIdempotent ==
  [][CallCancelAddProject =>
       /\ sel' = Undefined
       /\ projects' = projects
       /\ tasks' = tasks
       /\ handleCancelProjectAddProject(projectState') = projectState'
       /\ (sel = Undefined => UNCHANGED vars)]_vars

C13_Witness ==
  /\ sel = Undefined
  /\ Len(projects) >= 1
  /\ Len(tasks) >= 1
  /\ tasks[1].projectId = Null

\* C14: deleteProject leaves the Task Collection unchanged: the tasks of the
\* deleted project stay (no cascade), and so does every other task.
C14_DeleteProjectKeepsTasks ==
  [][ClickDelete => tasks' = tasks]_vars

C14_Witness ==
  /\ projects = <<>>
  /\ Len(tasks) = 2
  /\ sel = Undefined

\* C15: the tasks of a deleted project are never visible again: no detail
\* view shows a task whose projectId is the id of a deleted project (in Spec
\* a task is created under an existing project, so a task whose projectId no
\* project carries is the task of a deleted one).
C15_OrphansNeverShown ==
  content(projectState).kind = "SelectedProject" =>
    \A i \in 1..Len(shownTasks(projectState)) :
      shownTasks(projectState)[i].projectId \in projectIds

\* C16: an open modal is closed by the dismissal only: every step taken from
\* a state with the modal open either leaves it open or is the dismissal,
\* which changes nothing but the flag.
C16_ModalClosedOnlyByDismissal ==
  [][modalOpen =>
       \/ /\ modalOpen'
          /\ UNCHANGED <<projectState, title, description, dueDate, enteredTask>>
       \/ /\ DismissModal
          /\ UNCHANGED <<projectState, title, description, dueDate, enteredTask>>]_vars

C16_Witness ==
  /\ modalOpen
  /\ title = <<>>
  /\ description = <<>>
  /\ dueDate = <<>>
  /\ Len(projects) >= 1

\* C17: opening and dismissing the modal discards no form data: the rejected
\* Save and the dismissal both leave the form shown with the title,
\* description and dueDate it held when Save was pressed.
C17_ModalKeepsFormData ==
  [][((handleSave /\ ~ValidForm) \/ DismissModal) =>
       /\ content(projectState').kind = "NewProject"
       /\ title' = title
       /\ description' = description
       /\ dueDate' = dueDate]_vars

C17_Witness ==
  /\ modalOpen
  /\ title = <<" ", "a">>
  /\ description = <<"d">>
  /\ dueDate = <<>>

\* C18: from the empty state, startAddProject and a valid addProject(d) give
\* one project, no selection and the view NoProjectSelected; selecting that
\* project's id then gives the detail of a project with d's title,
\* description and dueDate.
C18_RoundTrip ==
  [][/\ (handleSave /\ ValidForm /\ projects = <<>> /\ tasks = <<>>) =>
          /\ Len(projects') = 1
          /\ projects'[1].title = title
          /\ projects'[1].description = description
          /\ projects'[1].dueDate = dueDate
          /\ sel' = Undefined
          /\ content(projectState').kind = "NoProjectSelected"
     /\ (ClickProject /\ Len(projects) = 1) =>
          /\ content(projectState').kind = "SelectedProject"
          /\ content(projectState').project = <<projects[1]>>
          /\ projects' = projects
          /\ ~Blank(content(projectState').project[1].title)]_vars

C18_Witness ==
  /\ Len(projects) = 1
  /\ tasks = <<>>
  /\ sel = projects[1].id
  /\ content(projectState).kind = "SelectedProject"
  /\ content(projectState).project[1].title = <<" ", "a">>
  /\ content(projectState).project[1].description = <<"d">>
  /\ content(projectState).project[1].dueDate = <<"2", "5">>

\* C19: deleteProject while nothing is selected changes neither the projects
\* nor the tasks nor the selection.
C19_DeleteNothingSelected ==
  [][(CallDeleteProject /\ sel = Undefined) =>
       projectState' = projectState]_vars

C19_Witness ==
  /\ sel = Undefined
  /\ Len(projects) = 2
  /\ Len(tasks) >= 1
  /\ tasks[1].projectId = Undefined

\* C20: addTask with a text that is blank after trimming creates no task and
\* leaves projects and selection unchanged.
C20_BlankTaskRejected ==
  [][(handleClick /\ Blank(enteredTask)) =>
       projectState' = projectState]_vars

C20_Witness ==
  /\ enteredTask = <<" ">>
  /\ sel \in projectIds
  /\ Len(tasks) = 1

\* C21: addTask invoked while no project is selected (selectedProjectId is
\* undefined or null) is a no-op: the Task Collection is left as it was.
C21_AddTaskUnselectedNoOp ==
  [][(CallAddTask /\ sel \in {Undefined, Null}) => tasks' = tasks]_vars

\* C22: every step that adds a task starts with a selected id that is the
\* id of a project of the Project Collection, and the new task (the first of
\* the new list) carries that id as its projectId.
C22_TaskCreatedForExistingProject ==
  [][Len(tasks') > Len(tasks) =>
       /\ sel \in projectIds
       /\ tasks'[1].projectId = sel
       /\ projects' = projects]_vars

\* two tasks added from the detail views of two different projects
C22_Witness ==
  /\ Len(tasks) = 2
  /\ Len(projects) = 2
  /\ tasks[1].projectId \in projectIds
  /\ tasks[2].projectId \in projectIds
  /\ tasks[1].projectId # tasks[2].projectId

\* C24: in every state reachable through the user events every stored
\* project has a title, a description and a dueDate that are not blank
\* after trimming.
C24_StoredProjectsValid ==
  \A i \in 1..Len(projects) :
    /\ ~Blank(projects[i].title)
    /\ ~Blank(projects[i].description)
    /\ ~Blank(projects[i].dueDate)

\* two projects stored, the form open again with a blank description
C24_Witness ==
  /\ Len(projects) = 2
  /\ sel = Null
  /\ ~Blank(title)
  /\ Blank(description)
  /\ ~modalOpen

\* C25: startAddProject, cancelAddProject and selectProject change only the
\* selection: startAddProject can be called in every state and sets null,
\* cancelAddProject sets undefined, selectProject(id) sets id, and each
\* leaves the projects and the tasks as they were.
C25_NavigationChangesOnlySelection ==
  /\ [](Mounted => ENABLED CallStartAddProject)
  /\ [][/\ CallStartAddProject =>
             /\ sel' = Null /\ projects' = projects /\ tasks' = tasks
        /\ CallCancelAddProject =>
             /\ sel' = Undefined /\ projects' = projects /\ tasks' = tasks
        /\ \A id \in Ids :
             (/\ CallSelectProject
              /\ projectState' = handleSelectProject(projectState, id)) =>
               /\ sel' = id /\ projects' = projects /\ tasks' = tasks]_vars

\* the form opened with two projects and two tasks stored
C25_Witness ==
  /\ sel = Null
  /\ Len(projects) = 2
  /\ Len(tasks) = 2
  /\ tasks[1].projectId \in projectIds

\* C26: a click on Add Task that adds a task leaves the selection at the
\* same project, which stays in the unchanged Project Collection, so the
\* detail view stays open.
C26_AddTaskKeepsSelection ==
  [][(handleClick /\ tasks' # tasks) =>
       /\ sel' = sel
       /\ sel' \in projectIds
       /\ projects' = projects
       /\ content(projectState').kind = "SelectedProject"
       /\ content(projectState').project = content(projectState).project]_vars

\* a first task was added and the detail view of its project is still open
C26_Witness ==
  /\ Len(tasks) = 1
  /\ Len(projects) = 2
  /\ sel \in projectIds
  /\ tasks[1].projectId = sel
  /\ enteredTask = <<>>

\* C27: in every state reachable through the user events a selected id is
\* the id of a stored project: the detail view is never rendered with an
\* undefined project.
C27_SelectionReferencesProject ==
  /\ sel \notin {Undefined, Null} => sel \in projectIds
  /\ ~renderThrows(projectState)

\* a project is selected after another project, which had a task, was deleted
C27_Witness ==
  /\ sel \in projectIds
  /\ Len(projects) = 1
  /\ Len(tasks) = 1
  /\ tasks[1].projectId \notin projectIds

\* C28: while the validation modal is open the view is the creation form
\* (selectedProjectId is null), and no step taken with the modal open
\* changes the selection, the projects or the tasks.
C28_ModalOnlyOverForm ==
  /\ [](modalOpen => /\ sel = Null
                     /\ content(projectState).kind = "NewProject")
  /\ [][modalOpen => projectState' = projectState]_vars

\* the modal open over the form with two projects and a task stored
C28_Witness ==
  /\ modalOpen
  /\ sel = Null
  /\ Len(projects) = 2
  /\ Len(tasks) = 1

\* C29: a step that adds a project starts with the form shown and the modal
\* closed; the form is not shown initially, it is shown only by
\* startAddProject, and cancelAddProject, selectProject and a successful
\* addProject each leave a state where it is no longer shown.
C29_ProjectsGrowOnlyThroughForm ==
  /\ sel # Null
  /\ [][/\ Len(projects') > Len(projects) =>
             /\ sel = Null /\ ~modalOpen /\ handleSave
             /\ sel' # Null
        /\ (sel # Null /\ sel' = Null) => ClickStartAddProject
        /\ (ClickCancel \/ ClickProject) => sel' # Null]_vars

\* the form opened a second time, filled in and ready to be saved
C29_Witness ==
  /\ Len(projects) = 1
  /\ sel = Null
  /\ ValidForm
  /\ ~modalOpen

\* C30: a click on Add Task that adds a task resets the input to the empty
\* text, which is blank, so the next click without typing adds nothing; a
\* click with a blank input leaves the input and the tasks as they were.
C30_InputResetAfterAdd ==
  [][handleClick =>
       IF Blank(enteredTask)
         THEN enteredTask' = enteredTask /\ tasks' = tasks
         ELSE /\ enteredTask' = <<>>
              /\ Blank(enteredTask')
              /\ Len(tasks') = Len(tasks) + 1]_vars

\* two tasks added to the selected project, the input empty again
C30_Witness ==
  /\ Len(tasks) = 2
  /\ sel \in projectIds
  /\ tasks[1].projectId = sel
  /\ tasks[2].projectId = sel
  /\ enteredTask = <<>>

\* C23: updaters queued before the next render are applied one after
\* another in the order they were queued, each to the value the one before
\* returned: the rendered state is that sequential application, no queued
\* addProject is lost, a selectProject(id) queued right before a final
\* deleteProject makes that delete remove the projects with that id, and
\* projectState does not change before the whole queue has been applied.
RECURSIVE C23_Sequential(_, _)
C23_Sequential(rnd, n) ==
  IF n = 0 THEN projectState
  ELSE Apply(C23_Sequential(rnd, n - 1), pending[n], rnd[n])

C23_Added == Len(SelectSeq(pending, LAMBDA u : u.op = "handleAddProject"))
C23_Deletes == Len(SelectSeq(pending, LAMBDA u : u.op = "handleDeleteProject"))

=============================================================================
